---- MODULE Spec2Model ----
(***************************************************************************)
(* pa11ycrawler item pipelines (pa11ycrawler/pipelines/__init__.py):       *)
(* DuplicatesPipeline, DropDRFPipeline and ActivateBlockIdPipeline.        *)
(*                                                                         *)
(* A url string is modelled by what urlsplit makes of it:                  *)
(*   netloc : scheme and host ("" for a string without them)                *)
(*   path   : the path string, written as the list "path.split('/')" of    *)
(*            its slash-free pieces; the string is "/".join(path), so      *)
(*            ''  = <<"">>, '/' = <<"","">>, '/a/b' = <<"","a","b">>,      *)
(*            '/a/b/' = <<"","a","b","">>, 'a' = <<"a">>.  The list is      *)
(*            never empty and determines the string.                       *)
(*   query  : the list of (name, value) pairs of the query string          *)
(*   valid  : whether the string is a syntactically valid absolute URL;    *)
(*            a property of the input that no line of the code reads.      *)
(* Two URLObjects are equal (and collide in a set) iff their strings are,  *)
(* i.e. iff netloc, path and query are.                                    *)
(***************************************************************************)
EXTENDS Integers, Sequences, FiniteSets, TLC

VARIABLES
    dup_seen,    \* DuplicatesPipeline.urls_seen
    act_seen,    \* ActivateBlockIdPipeline.urls_seen
    log,         \* history: the process_item calls made so far, in order
    feed,        \* composed pipeline: the records the crawler will deliver
    delivered,   \* composed pipeline: indices of feed already delivered
    cur,         \* composed pipeline: the record in flight, <<>> if none
    at,          \* composed pipeline: the stage the record in flight is at
    forwarded,   \* composed pipeline: records handed to the downstream consumer
    wpc,         \* concurrent delivery: each worker's position in process_item
    witem,       \* concurrent delivery: each worker's item argument
    wurl,        \* concurrent delivery: each worker's local variable url
    target       \* concurrent delivery: the stage instance the workers call

vars == <<dup_seen, act_seen, log, feed, delivered, cur, at, forwarded,
          wpc, witem, wurl, target>>

-----------------------------------------------------------------------------
(* Bounds of the model *)

MaxCalls == 3       \* process_item calls in a single-stage run
MaxFeed == 3        \* records delivered in a composed-pipeline run
NWorkers == 2       \* producer workers calling one stage concurrently

-----------------------------------------------------------------------------
(* URL values *)

Url(v, n, p, q) == [valid |-> v, netloc |-> n, path |-> p, query |-> q]

Http(p, q) == Url(TRUE, "http://h", p, q)

marker == "activate_block_id"

SeqPath == <<"", "courses", "X", "courseware", "Y", "Z">>
SecPath == <<"", "section">>

\* The urls records are drawn from, in a fixed order.
URLS ==
    << Http(<<"", "page">>, <<>>),                                   \* 1  /page
       Http(<<"", "page">>, << <<"next", "/home">> >>),             \* 2  /page?next=/home
       Http(<<"", "page", "">>, <<>>),                               \* 3  /page/
       Http(<<"", "api", "v1", "x">>, <<>>),                         \* 4  /api/v1/x
       Http(<<"", "api", "">>, << <<marker, "abc">> >>),            \* 5  /api/?activate_block_id=abc
       Http(<<"", "apix", "y">>, <<>>),                              \* 6  /apix/y
       Http(<<"", "api">>, <<>>),                                    \* 7  /api
       Http(SeqPath \o <<"1">>, <<>>),                               \* 8  /courses/X/courseware/Y/Z/1
       Http(SeqPath, <<>>),                                          \* 9  /courses/X/courseware/Y/Z
       Http(SeqPath \o <<"">>, <<>>),                                \* 10 /courses/X/courseware/Y/Z/
       Http(SecPath \o <<"42">>, << <<marker, "abc">> >>),          \* 11 /section/42?activate_block_id=abc
       Http(SecPath \o <<"7">>, << <<marker, "xyz">> >>),           \* 12 /section/7?activate_block_id=xyz
       Http(SecPath \o <<"">>, << <<"foo", "bar">> >>),             \* 13 /section/?foo=bar
       Http(SecPath \o <<"7">>, << <<"foo", "bar">> >>),            \* 14 /section/7?foo=bar
       Http(SecPath \o <<"42">>,
            << <<marker, "abc">>, <<"foo", "bar">> >>),             \* 15 /section/42?activate_block_id=abc&foo=bar
       Http(SecPath \o <<"intro">>, << <<marker, "abc">> >>),       \* 16 /section/intro?activate_block_id=abc
       Http(<<"">>, << <<marker, "abc">> >>),                       \* 17 http://h?activate_block_id=abc
       Url(FALSE, "", <<"not a url">>, <<>>),                        \* 18 'not a url'
       Http(SecPath \o <<"">>,
            << <<"foo", "bar">>, <<marker, "xyz">> >>),             \* 19 /section/?foo=bar&activate_block_id=xyz
       Http(SecPath \o <<"7", "42">>, << <<marker, "abc">> >>),     \* 20 /section/7/42?activate_block_id=abc
       Http(SeqPath \o <<"1", "">>, <<>>),                          \* 21 /courses/X/courseware/Y/Z/1/
       Http(<<"", "courses", "X", "other", "Y", "Z", "1">>, <<>>)   \* 22 /courses/X/other/Y/Z/1
    >>

NUrls == Len(URLS)

Items == { [url |-> URLS[i]] : i \in 1..NUrls }

-----------------------------------------------------------------------------
(* urlobject and str operations the pipelines use *)

\* URLObject.without_query()
without_query(url) == [url EXCEPT !.query = <<>>]

\* URLPath.segments: the '/'-split pieces, without the empty first one
segments(path) == IF Head(path) = "" THEN Tail(path) ELSE path

\* URLPath.is_leaf: a non-empty path whose last segment is not ''
is_leaf(path) == path # <<"">> /\ path[Len(path)] # ""

\* URLObject.parent: path.relative('.') for a leaf (the last piece goes, the
\* slash before it stays), path.relative('..') otherwise.
parent(url) ==
    LET p == url.path
        n == Len(p)
    IN  IF is_leaf(p)
        THEN [url EXCEPT !.path = IF n >= 2 THEN SubSeq(p, 1, n - 1) \o <<"">>
                                  ELSE <<"", "">>]
        ELSE [url EXCEPT !.path = IF n >= 4 THEN SubSeq(p, 1, n - 2) \o <<"">>
                                  ELSE <<"", "">>]

\* URLObject.query_dict: here its key set
query_keys(url) == { url.query[i][1] : i \in 1..Len(url.query) }

\* URLObject.del_query_param(name): the other pairs, in order
del_query_param(url, name) ==
    [url EXCEPT !.query = SelectSeq(url.query, LAMBDA kv : kv[1] # name)]

\* Mutant: startswith("/api"), the closing slash of the prefix forgotten
starts_with_api_no_slash(path) ==
    Len(path) >= 2 /\ path[1] = "" /\ path[2] \in {"api", "apix"}

\* str.startswith("/api/") on the path
starts_with_api(path) == Len(path) >= 3 /\ path[1] = "" /\ path[2] = "api"

\* The path pieces of the model that Python's int() accepts
IntPieces == {"1", "7", "42"}

\* int(after) does not raise ValueError
is_int(piece) == piece \in IntPieces

-----------------------------------------------------------------------------
(* The stages.  process_item is a function of the item and the stage's     *)
(* urls_seen; it yields the outcome ("Returned": the item is returned,     *)
(* "DropItem": DropItem is raised, "ValueError": ValueError escapes), the  *)
(* item returned (<<>> if none) and the stage's urls_seen afterwards.      *)

Result(o, r, s) == [outcome |-> o, returned |-> r, urls_seen |-> s]

\* Mutant: the query string is not removed
Duplicates_clean_url_keeps_query(url) == url

\* Mutant: a trailing slash of the path is removed with the query string
Duplicates_clean_url_strips_slash(url) ==
    LET p == url.path
        n == Len(p)
    IN  [url EXCEPT !.query = <<>>,
                    !.path = IF n >= 3 /\ p[n] = "" THEN SubSeq(p, 1, n - 1) ELSE p]

\* DuplicatesPipeline.clean_url
Duplicates_clean_url(url) == without_query(url)

\* Mutant: the test of the number of segments is missing
is_sequence_start_page_any_length(url) ==
    LET s == segments(url.path)
    IN  /\ Len(s) >= 6
        /\ s[1] = "courses"
        /\ s[3] = "courseware"
        /\ s[6] = "1"

\* DuplicatesPipeline.is_sequence_start_page (segments[k] is s[k + 1] here)
is_sequence_start_page(url) ==
    LET s == segments(url.path)
    IN  /\ Len(s) = 6
        /\ s[1] = "courses"
        /\ s[3] = "courseware"
        /\ s[6] = "1"

\* DuplicatesPipeline.process_item, the local url that is looked up
Duplicates_key(item) ==
    LET url == Duplicates_clean_url(item.url)
    IN  IF is_sequence_start_page(url) THEN parent(url) ELSE url

\* Mutant: the url is never added to urls_seen
Duplicates_process_item_no_add(item, urls_seen) ==
    LET url == Duplicates_key(item)
    IN  IF url \in urls_seen
        THEN Result("DropItem", <<>>, urls_seen)
        ELSE Result("Returned", <<item>>, urls_seen)

\* Mutant: urls_seen remembers only the last url
Duplicates_process_item_last_only(item, urls_seen) ==
    LET url == Duplicates_key(item)
    IN  IF url \in urls_seen
        THEN Result("DropItem", <<>>, urls_seen)
        ELSE Result("Returned", <<item>>, {url})

\* Mutant: urls_seen receives the record's url as it came, not its key
Duplicates_process_item_adds_raw(item, urls_seen) ==
    LET url == Duplicates_key(item)
    IN  IF url \in urls_seen
        THEN Result("DropItem", <<>>, urls_seen)
        ELSE Result("Returned", <<item>>, urls_seen \cup {item.url})

\* DuplicatesPipeline.process_item
Duplicates_process_item(item, urls_seen) ==
    LET url == Duplicates_key(item)
    IN  IF url \in urls_seen
        THEN Result("DropItem", <<>>, urls_seen)
        ELSE Result("Returned", <<item>>, urls_seen \cup {url})

\* Mutant: startswith is applied to the whole url, not to url.path, so it
\* matches only a string without scheme and host
DropDRF_process_item_whole_url(item) ==
    IF item.url.netloc = "" /\ starts_with_api(item.url.path)
    THEN Result("DropItem", <<>>, {})
    ELSE Result("Returned", <<item>>, {})

\* DropDRFPipeline.process_item (the stage has no state)
DropDRF_process_item(item) ==
    IF starts_with_api(item.url.path)
    THEN Result("DropItem", <<>>, {})
    ELSE Result("Returned", <<item>>, {})

\* Mutant: an integer last piece is stripped together with the '/' before it
ActivateBlockId_clean_url_drop_slash(url) ==
    LET u == del_query_param(url, marker)
        p == u.path
        n == Len(p)
    IN  IF n < 2
        THEN [raised |-> TRUE, url |-> u]
        ELSE [raised |-> FALSE,
              url |-> [u EXCEPT !.path =
                          IF is_int(p[n]) THEN SubSeq(p, 1, n - 1) ELSE p]]

\* Mutant: the whole query string is removed, not the marker alone
ActivateBlockId_clean_url_strips_query(url) ==
    LET p == url.path
        n == Len(p)
    IN  IF n < 2
        THEN [raised |-> TRUE, url |-> without_query(url)]
        ELSE [raised |-> FALSE,
              url |-> [without_query(url) EXCEPT !.path =
                          SubSeq(p, 1, n - 1)
                          \o <<IF is_int(p[n]) THEN "" ELSE p[n]>>]]

\* Mutant: an integer last piece is not stripped
ActivateBlockId_clean_url_keep_tail(url) ==
    LET u == del_query_param(url, marker)
    IN  [raised |-> Len(u.path) < 2, url |-> u]

\* ActivateBlockIdPipeline.clean_url: "before, after = url.path.rsplit('/', 1)"
\* raises ValueError when the path holds no '/'.
ActivateBlockId_clean_url(url) ==
    LET u == del_query_param(url, marker)
        p == u.path
        n == Len(p)
    IN  IF n < 2
        THEN [raised |-> TRUE, url |-> u]
        ELSE [raised |-> FALSE,
              url |-> [u EXCEPT !.path =
                          SubSeq(p, 1, n - 1)
                          \o <<IF is_int(p[n]) THEN "" ELSE p[n]>>]]

\* Mutant: the cleaned url is written into the item that is returned
ActivateBlockId_process_item_rewrites(item, urls_seen) ==
    IF marker \notin query_keys(item.url)
    THEN Result("Returned", <<item>>, urls_seen)
    ELSE LET c == ActivateBlockId_clean_url(item.url)
         IN  IF c.raised
             THEN Result("ValueError", <<>>, urls_seen)
             ELSE IF c.url \in urls_seen
                  THEN Result("DropItem", <<>>, urls_seen)
                  ELSE Result("Returned", <<[item EXCEPT !.url = c.url]>>,
                              urls_seen \cup {c.url})

\* Mutant: the early return for a url without the marker is missing
ActivateBlockId_process_item_no_early_return(item, urls_seen) ==
    LET c == ActivateBlockId_clean_url(item.url)
    IN  IF c.raised
        THEN Result("ValueError", <<>>, urls_seen)
        ELSE IF c.url \in urls_seen
             THEN Result("DropItem", <<>>, urls_seen)
             ELSE Result("Returned", <<item>>, urls_seen \cup {c.url})

\* ActivateBlockIdPipeline.process_item
ActivateBlockId_process_item(item, urls_seen) ==
    IF marker \notin query_keys(item.url)
    THEN Result("Returned", <<item>>, urls_seen)
    ELSE LET c == ActivateBlockId_clean_url(item.url)
         IN  IF c.raised
             THEN Result("ValueError", <<>>, urls_seen)
             ELSE IF c.url \in urls_seen
                  THEN Result("DropItem", <<>>, urls_seen)
                  ELSE Result("Returned", <<item>>, urls_seen \cup {c.url})

-----------------------------------------------------------------------------
(* State and history *)

DedupStages == {"Duplicates", "ActivateBlockId"}

Call(stage, item, r) ==
    [stage |-> stage, item |-> item, outcome |-> r.outcome, returned |-> r.returned]

Idle ==
    /\ feed = <<>>
    /\ delivered = {}
    /\ cur = <<>>
    /\ at = "none"
    /\ forwarded = <<>>
    /\ wpc = <<>>
    /\ witem = <<>>
    /\ wurl = <<>>
    /\ target = "none"

pipe_vars == <<feed, delivered, cur, at, forwarded>>
conc_vars == <<wpc, witem, wurl, target>>

\* __init__ of both stateful stages: urls_seen = set()
Constructed ==
    /\ dup_seen = {}
    /\ act_seen = {}
    /\ log = <<>>

-----------------------------------------------------------------------------
(* Spec: one stage object driven alone, by up to MaxCalls process_item     *)
(* calls with any items.  The stages share no state, so a run drives one.  *)

Init == Constructed /\ Idle

Driving(stage) ==
    /\ Len(log) < MaxCalls
    /\ IF log = <<>> THEN TRUE ELSE log[1].stage = stage

DuplicatesProcessItem(item) ==
    /\ Driving("Duplicates")
    /\ LET r == Duplicates_process_item(item, dup_seen)
       IN  /\ dup_seen' = r.urls_seen
           /\ log' = Append(log, Call("Duplicates", item, r))
    /\ UNCHANGED <<act_seen, pipe_vars, conc_vars>>

DropDRFProcessItem(item) ==
    /\ Driving("DropDRF")
    /\ log' = Append(log, Call("DropDRF", item, DropDRF_process_item(item)))
    /\ UNCHANGED <<dup_seen, act_seen, pipe_vars, conc_vars>>

ActivateBlockIdProcessItem(item) ==
    /\ Driving("ActivateBlockId")
    /\ LET r == ActivateBlockId_process_item(item, act_seen)
       IN  /\ act_seen' = r.urls_seen
           /\ log' = Append(log, Call("ActivateBlockId", item, r))
    /\ UNCHANGED <<dup_seen, pipe_vars, conc_vars>>

Next ==
    \E item \in Items :
        \/ DuplicatesProcessItem(item)
        \/ DropDRFProcessItem(item)
        \/ ActivateBlockIdProcessItem(item)

Spec == Init /\ [][Next]_vars

-----------------------------------------------------------------------------
(* SpecPipe: the composed pipeline under sequential delivery.  The crawler *)
(* delivers the records of feed one at a time, in any order; a record goes *)
(* through DropDRFPipeline, DuplicatesPipeline and ActivateBlockIdPipeline *)
(* in that order, each stage getting what the stage before returned; an    *)
(* exception ends the record's processing; what the last stage returns is  *)
(* handed to the downstream consumer.                                      *)

\* Indices into URLS of the urls a feed is made of
FeedPool == {1, 2, 4, 5, 8, 9, 11, 12, 14, 16, 17}

\* A feed is a multiset of records: written in nondecreasing index order
Feeds ==
    { [k \in 1..MaxFeed |-> [url |-> URLS[f[k]]]] :
        f \in { g \in [1..MaxFeed -> FeedPool] :
                  \A k \in 1..(MaxFeed - 1) : g[k] <= g[k + 1] } }

InitPipe ==
    /\ Constructed
    /\ feed \in Feeds
    /\ delivered = {}
    /\ cur = <<>>
    /\ at = "none"
    /\ forwarded = <<>>
    /\ wpc = <<>> /\ witem = <<>> /\ wurl = <<>> /\ target = "none"

\* The stage after `stage`, "Downstream" after the last
StageAfter(stage) ==
    CASE stage = "DropDRF" -> "Duplicates"
      [] stage = "Duplicates" -> "ActivateBlockId"
      [] stage = "ActivateBlockId" -> "Downstream"

\* The driver's bookkeeping after the stage the record was at has run
Advance(r) ==
    /\ log' = Append(log, Call(at, cur[1], r))
    /\ IF r.outcome # "Returned"
       THEN cur' = <<>> /\ at' = "none" /\ forwarded' = forwarded
       ELSE IF StageAfter(at) = "Downstream"
            THEN cur' = <<>> /\ at' = "none"
                 /\ forwarded' = Append(forwarded, r.returned[1])
            ELSE cur' = r.returned /\ at' = StageAfter(at)
                 /\ forwarded' = forwarded

Deliver(i) ==
    /\ cur = <<>>
    /\ i \in (1..Len(feed)) \ delivered
    /\ cur' = <<feed[i]>>
    /\ at' = "DropDRF"
    /\ delivered' = delivered \cup {i}
    /\ UNCHANGED <<dup_seen, act_seen, log, feed, forwarded, conc_vars>>

PipeDropDRF ==
    /\ at = "DropDRF"
    /\ Advance(DropDRF_process_item(cur[1]))
    /\ UNCHANGED <<dup_seen, act_seen, feed, delivered, conc_vars>>

PipeDuplicates ==
    /\ at = "Duplicates"
    /\ LET r == Duplicates_process_item(cur[1], dup_seen)
       IN  dup_seen' = r.urls_seen /\ Advance(r)
    /\ UNCHANGED <<act_seen, feed, delivered, conc_vars>>

\* Mutant: the activation-marker stage keeps its forms in the URL-dedup
\* stage's set
PipeActivateBlockId_shared ==
    /\ at = "ActivateBlockId"
    /\ LET r == ActivateBlockId_process_item(cur[1], dup_seen)
       IN  dup_seen' = r.urls_seen /\ Advance(r)
    /\ UNCHANGED <<act_seen, feed, delivered, conc_vars>>

PipeActivateBlockId ==
    /\ at = "ActivateBlockId"
    /\ LET r == ActivateBlockId_process_item(cur[1], act_seen)
       IN  act_seen' = r.urls_seen /\ Advance(r)
    /\ UNCHANGED <<dup_seen, feed, delivered, conc_vars>>

NextPipe ==
    \/ \E i \in 1..MaxFeed : Deliver(i)
    \/ PipeDropDRF
    \/ PipeDuplicates
    \/ PipeActivateBlockId

SpecPipe == InitPipe /\ [][NextPipe]_vars

\* Every record of the feed has been delivered and processed
PipeDone == delivered = 1..Len(feed) /\ cur = <<>>

\* What the pipeline does to one record, as a function: the two urls_seen
\* afterwards and the records forwarded (none or one).
PipeOne(item, ds, as) ==
    LET r1 == DropDRF_process_item(item)
    IN  IF r1.outcome # "Returned"
        THEN [ds |-> ds, as |-> as, out |-> <<>>]
        ELSE LET r2 == Duplicates_process_item(r1.returned[1], ds)
             IN  IF r2.outcome # "Returned"
                 THEN [ds |-> r2.urls_seen, as |-> as, out |-> <<>>]
                 ELSE LET r3 == ActivateBlockId_process_item(r2.returned[1], as)
                      IN  [ds |-> r2.urls_seen, as |-> r3.urls_seen,
                           out |-> r3.returned]

\* The records forwarded when `items` are delivered in the order written
PipeForwarded(items) ==
    LET run[k \in 0..Len(items)] ==
            IF k = 0
            THEN [ds |-> {}, as |-> {}, fwd |-> <<>>]
            ELSE LET one == PipeOne(items[k], run[k - 1].ds, run[k - 1].as)
                 IN  [ds |-> one.ds, as |-> one.as,
                      fwd |-> run[k - 1].fwd \o one.out]
    IN  run[Len(items)].fwd

-----------------------------------------------------------------------------
(* SpecConc: NWorkers producer workers each call process_item of the same  *)
(* dedup stage instance once, concurrently.  The code takes no lock: the   *)
(* membership test "url in self.urls_seen" and "self.urls_seen.add(url)"   *)
(* are separate steps of a call, and another worker's steps may fall       *)
(* between them.                                                           *)

Workers == 1..NWorkers

InitConc ==
    /\ Constructed
    /\ target \in DedupStages
    /\ wpc = [w \in Workers |-> "idle"]
    /\ witem = [w \in Workers |-> <<>>]
    /\ wurl = [w \in Workers |-> <<>>]
    /\ feed = <<>> /\ delivered = {} /\ cur = <<>> /\ at = "none"
    /\ forwarded = <<>>

\* process_item up to the membership test: the local url is computed, or the
\* call ends early (no marker: the item is returned; clean_url raises).
ConcCall(w, item) ==
    /\ wpc[w] = "idle"
    /\ witem' = [witem EXCEPT ![w] = <<item>>]
    /\ IF target = "Duplicates"
       THEN /\ wurl' = [wurl EXCEPT ![w] = <<Duplicates_key(item)>>]
            /\ wpc' = [wpc EXCEPT ![w] = "test"]
            /\ log' = log
       ELSE IF marker \notin query_keys(item.url)
            THEN /\ log' = Append(log, Call(target, item,
                                            Result("Returned", <<item>>, {})))
                 /\ wpc' = [wpc EXCEPT ![w] = "done"]
                 /\ wurl' = wurl
            ELSE LET c == ActivateBlockId_clean_url(item.url)
                 IN  IF c.raised
                     THEN /\ log' = Append(log, Call(target, item,
                                                     Result("ValueError", <<>>, {})))
                          /\ wpc' = [wpc EXCEPT ![w] = "done"]
                          /\ wurl' = wurl
                     ELSE /\ wurl' = [wurl EXCEPT ![w] = <<c.url>>]
                          /\ wpc' = [wpc EXCEPT ![w] = "test"]
                          /\ log' = log
    /\ UNCHANGED <<dup_seen, act_seen, target, pipe_vars>>

\* "if url in self.urls_seen: raise DropItem(...)"
ConcTest(w) ==
    /\ wpc[w] = "test"
    /\ IF wurl[w][1] \in (IF target = "Duplicates" THEN dup_seen ELSE act_seen)
       THEN /\ log' = Append(log, Call(target, witem[w][1],
                                       Result("DropItem", <<>>, {})))
            /\ wpc' = [wpc EXCEPT ![w] = "done"]
       ELSE /\ wpc' = [wpc EXCEPT ![w] = "add"]
            /\ log' = log
    /\ UNCHANGED <<dup_seen, act_seen, witem, wurl, target, pipe_vars>>

\* "else: self.urls_seen.add(url); return item"
ConcAdd(w) ==
    /\ wpc[w] = "add"
    /\ IF target = "Duplicates"
       THEN dup_seen' = dup_seen \cup {wurl[w][1]} /\ act_seen' = act_seen
       ELSE act_seen' = act_seen \cup {wurl[w][1]} /\ dup_seen' = dup_seen
    /\ log' = Append(log, Call(target, witem[w][1],
                               Result("Returned", witem[w], {})))
    /\ wpc' = [wpc EXCEPT ![w] = "done"]
    /\ UNCHANGED <<witem, wurl, target, pipe_vars>>

NextConc ==
    \E w \in Workers :
        \/ \E item \in Items : ConcCall(w, item)
        \/ ConcTest(w)
        \/ ConcAdd(w)

SpecConc == InitConc /\ [][NextConc]_vars

-----------------------------------------------------------------------------
(* Vocabulary of the claims *)

\* The canonical form a dedup stage derives for a url, as a set: one element,
\* or none where the stage derives no canonical form (the activation-marker
\* stage for a url without the marker, or one whose cleaning raises).
CanonOf(stage, url) ==
    IF stage = "Duplicates"
    THEN {Duplicates_key([url |-> url])}
    ELSE IF stage = "ActivateBlockId" /\ marker \in query_keys(url)
              /\ ~ActivateBlockId_clean_url(url).raised
         THEN {ActivateBlockId_clean_url(url).url}
         ELSE {}

Calls == 1..Len(log)

U(i) == URLS[i]

\* The path string begins with the string "/".join(prefix), for a prefix
\* that ends in '/'.
PathBeginsWith(path, prefix) ==
    /\ Len(path) >= Len(prefix)
    /\ \A k \in 1..(Len(prefix) - 1) : path[k] = prefix[k]

ApiPrefix == <<"", "api", "">>

-----------------------------------------------------------------------------
(* Claims checked on a single stage (Spec) *)

\* C1: a dedup stage that starts with an empty urls_seen and is given two
\* records whose urls have the same canonical form under the stage's rule
\* returns the first of them (Fresh) and drops the second (Duplicate).
C1_DedupCorrectness ==
    (Len(log) >= 2 /\ log[1].stage \in DedupStages) =>
        LET c1 == CanonOf(log[1].stage, log[1].item.url)
            c2 == CanonOf(log[2].stage, log[2].item.url)
        IN  (c1 # {} /\ c1 = c2) =>
                /\ log[1].outcome = "Returned"
                /\ log[2].outcome = "DropItem"

\* C1, its case: /section/42?activate_block_id=abc then
\* /section/7?activate_block_id=xyz through the activation-marker stage.
C1_Witness ==
    /\ Len(log) = 2
    /\ log[1].stage = "ActivateBlockId"
    /\ log[1].item.url = U(11) /\ log[2].item.url = U(12)
    /\ log[1].outcome = "Returned" /\ log[2].outcome = "DropItem"

\* C4: DropDRFPipeline.process_item raises DropItem exactly for the records
\* whose path begins with '/api/', whatever the query string and whatever
\* was processed before; every other record is returned as it was given;
\* the calls leave no state behind.
C4_DRFExclusion ==
    \A i \in Calls :
        log[i].stage = "DropDRF" =>
            /\ IF PathBeginsWith(log[i].item.url.path, ApiPrefix)
               THEN log[i].outcome = "DropItem"
               ELSE /\ log[i].outcome = "Returned"
                    /\ log[i].returned = <<log[i].item>>
            /\ dup_seen = {} /\ act_seen = {}

\* C4, its case: after /apix/y was returned and /api/v1/x dropped,
\* /api/?activate_block_id=abc is dropped too.
C4_Witness ==
    /\ Len(log) = 3
    /\ log[1].stage = "DropDRF"
    /\ log[1].item.url = U(6) /\ log[1].outcome = "Returned"
    /\ log[2].item.url = U(4) /\ log[2].outcome = "DropItem"
    /\ log[3].item.url = U(5) /\ log[3].outcome = "DropItem"

\* One url's path is the sequence-start shape /courses/X/courseware/Y/Z/1
\* and the other's is that path without its last segment.
SequencePair(a, b) ==
    /\ is_sequence_start_page(without_query(a))
    /\ b.netloc = a.netloc
    /\ b.path = SubSeq(a.path, 1, Len(a.path) - 1)

\* C5 (as claimed): once DuplicatesPipeline has processed one of
\* /courses/X/courseware/Y/Z/1 and /courses/X/courseware/Y/Z, the other is
\* dropped as a duplicate.
C5_SequenceCollapse ==
    \A i, j \in Calls :
        (/\ i < j
         /\ log[i].stage = "Duplicates"
         /\ \/ SequencePair(log[i].item.url, log[j].item.url)
            \/ SequencePair(log[j].item.url, log[i].item.url))
        => log[j].outcome = "DropItem"

\* C6 (as claimed): /section/42?activate_block_id=abc and /section/?foo=bar
\* are duplicates of each other for the activation-marker stage: whichever
\* comes second is dropped.
C6_MarkerCollapse_Original ==
    \A i, j \in Calls :
        (/\ i < j
         /\ log[i].stage = "ActivateBlockId"
         /\ {log[i].item.url, log[j].item.url} = {U(11), U(13)})
        => log[j].outcome = "DropItem"

\* C6 (amended): /section/42?activate_block_id=abc&foo=bar and
\* /section/?foo=bar&activate_block_id=xyz, which both carry the marker and
\* agree in their other query parameters, have the canonical form
\* /section/?foo=bar, and whichever of them the stage sees second is dropped.
C6_MarkerCollapse ==
    \A i, j \in Calls :
        (/\ i < j
         /\ log[i].stage = "ActivateBlockId"
         /\ {log[i].item.url, log[j].item.url} = {U(15), U(19)})
        => /\ log[j].outcome = "DropItem"
           /\ U(13) \in act_seen

\* C6, its case: the first of the two was returned, the second dropped.
C6_Witness ==
    /\ Len(log) = 2
    /\ log[1].stage = "ActivateBlockId"
    /\ log[1].item.url = U(19) /\ log[1].outcome = "Returned"
    /\ log[2].item.url = U(15) /\ log[2].outcome = "DropItem"

\* C7: urls_seen of both dedup stages is empty at construction, no call
\* removes anything from it, and a record whose canonical form is already in
\* the stage's urls_seen is dropped.
C7_SeenSetMonotonic ==
    /\ [](log = <<>> => (dup_seen = {} /\ act_seen = {}))
    /\ [][ /\ dup_seen \subseteq dup_seen'
           /\ act_seen \subseteq act_seen'
           /\ Len(log') = Len(log) + 1 =>
                LET e == log'[Len(log')]
                    seen == IF e.stage = "Duplicates" THEN dup_seen ELSE act_seen
                IN  (e.stage \in DedupStages
                     /\ CanonOf(e.stage, e.item.url) \cap seen # {})
                    => e.outcome = "DropItem" ]_vars

\* C7, its case: /page was recorded, another url was recorded after it, and
\* /page?next=/home is then still dropped as a duplicate of /page.
C7_Witness ==
    /\ Len(log) = 3
    /\ log[1].stage = "Duplicates"
    /\ log[1].item.url = U(1) /\ log[1].outcome = "Returned"
    /\ log[2].item.url = U(3) /\ log[2].outcome = "Returned"
    /\ log[3].item.url = U(2) /\ log[3].outcome = "DropItem"
    /\ dup_seen = {U(1), U(3)}

\* C8 (as claimed): for a record whose url carries activate_block_id,
\* ActivateBlockIdPipeline.process_item either returns the record or raises
\* DropItem; nothing else escapes.
C8_ErrorContainment ==
    \A i \in Calls :
        (log[i].stage = "ActivateBlockId" /\ marker \in query_keys(log[i].item.url))
        => log[i].outcome \in {"Returned", "DropItem"}

\* C9 (as claimed): a record whose url is not a valid URL is neither returned
\* nor dropped as a duplicate or DRF page, and no urls_seen holds a url
\* derived from it.
C9_MalformedRejected ==
    /\ \A i \in Calls :
          ~log[i].item.url.valid => log[i].outcome \notin {"Returned", "DropItem"}
    /\ \A u \in dup_seen \cup act_seen : u.valid

\* C10: the item a dedup stage returns is the item it was given, url
\* included; the canonical form goes into urls_seen only.
C10_ForwardedIsOriginal ==
    \A i \in Calls :
        (log[i].stage \in DedupStages /\ log[i].outcome = "Returned")
        => log[i].returned = <<log[i].item>>

\* C10, its case: /section/42?activate_block_id=abc&foo=bar is returned with
\* its url as given while urls_seen holds /section/?foo=bar.
C10_Witness ==
    /\ Len(log) = 1
    /\ log[1].stage = "ActivateBlockId"
    /\ log[1].item.url = U(15)
    /\ log[1].returned = <<[url |-> U(15)]>>
    /\ act_seen = {U(13)}

-----------------------------------------------------------------------------
(* Claims checked on concurrent delivery (SpecConc) and on the composed    *)
(* pipeline (SpecPipe)                                                     *)

\* C2 (as claimed): when workers call process_item of one dedup stage
\* concurrently with records whose canonical forms are equal, the test and
\* the insertion are one critical section: never are two such records both
\* returned (Fresh).
C2_AtomicCheckAndRecord ==
    \A i, j \in Calls :
        LET ci == CanonOf(log[i].stage, log[i].item.url)
            cj == CanonOf(log[j].stage, log[j].item.url)
        IN  (i # j /\ log[i].stage = log[j].stage /\ ci # {} /\ ci = cj)
            => ~(log[i].outcome = "Returned" /\ log[j].outcome = "Returned")

Range(seq) == { seq[k] : k \in 1..Len(seq) }

\* The canonical forms of a set of records under the URL-dedup stage's rule
UrlForms(items) == { Duplicates_key(it) : it \in items }

\* The canonical forms of a set of records, each under the rule of the last
\* dedup stage that derives one for it
LastForms(items) ==
    { IF CanonOf("ActivateBlockId", it.url) # {}
      THEN ActivateBlockId_clean_url(it.url).url
      ELSE Duplicates_key(it) : it \in items }

\* C3 (as claimed): once the whole feed went through the composed pipeline,
\* the set of canonical forms of the forwarded records is the one that
\* delivering the same multiset in index order gives, so it is the same for
\* every delivery order (under either reading of "canonical form").
C3_OrderIndependence ==
    PipeDone =>
        LET ref == Range(PipeForwarded(feed))
            got == Range(forwarded)
        IN  \/ UrlForms(got) = UrlForms(ref)
            \/ LastForms(got) = LastForms(ref)

-----------------------------------------------------------------------------
(* Further claims checked on a single stage (Spec) *)

\* The call a step appends to the log
NewCall == log'[Len(log')]

\* C11: for a record whose url has no activate_block_id parameter,
\* ActivateBlockIdPipeline.process_item returns the record and leaves
\* urls_seen as it was, also when the cleaned url is already in urls_seen.
C11_MarkerAbsentNoOp ==
    [][ (/\ Len(log') = Len(log) + 1
         /\ NewCall.stage = "ActivateBlockId"
         /\ marker \notin query_keys(NewCall.item.url))
        => /\ NewCall.outcome = "Returned"
           /\ NewCall.returned = <<NewCall.item>>
           /\ act_seen' = act_seen ]_vars

\* C11, its case: /section/?foo=bar is in urls_seen (recorded for
\* /section/?foo=bar&activate_block_id=xyz), and the record /section/?foo=bar
\* is then returned twice.
C11_Witness ==
    /\ Len(log) = 3
    /\ log[1].stage = "ActivateBlockId"
    /\ log[1].item.url = U(19) /\ log[1].outcome = "Returned"
    /\ log[2].item.url = U(13) /\ log[2].outcome = "Returned"
    /\ log[3].item.url = U(13) /\ log[3].outcome = "Returned"
    /\ act_seen = {U(13)}

-----------------------------------------------------------------------------
(* Further claims checked on the composed pipeline (SpecPipe) *)

DeliveryOrder ==
    LET drf == SelectSeq(log, LAMBDA e : e.stage = "DropDRF")
    IN  [k \in 1..Len(drf) |-> drf[k].item]

Outcomes == [k \in 1..Len(log) |-> <<log[k].stage, log[k].outcome>>]

\* C13: with /api/v1/x, /page?next=/home and /page delivered in that order
\* to a pipeline whose urls_seen are empty, the first record is dropped by
\* DropDRFPipeline, the second is forwarded and DuplicatesPipeline records
\* /page for it, and the third is dropped by DuplicatesPipeline.
C13_EndToEnd ==
    (PipeDone /\ DeliveryOrder = <<[url |-> U(4)], [url |-> U(2)], [url |-> U(1)]>>)
    => /\ Outcomes = << <<"DropDRF", "DropItem">>,
                        <<"DropDRF", "Returned">>,
                        <<"Duplicates", "Returned">>,
                        <<"ActivateBlockId", "Returned">>,
                        <<"DropDRF", "Returned">>,
                        <<"Duplicates", "DropItem">> >>
       /\ forwarded = <<[url |-> U(2)]>>
       /\ dup_seen = {U(1)}

\* C13, its case: the three records were delivered in that order and
\* /page?next=/home is the record forwarded.
C13_Witness ==
    /\ PipeDone
    /\ DeliveryOrder = <<[url |-> U(4)], [url |-> U(2)], [url |-> U(1)]>>
    /\ forwarded = <<[url |-> U(2)]>>

-----------------------------------------------------------------------------
(* Further claims checked on a single stage (Spec), continued *)

\* ActivateBlockIdPipeline.clean_url applied to its own result (a ValueError
\* of the first application is the result)
CleanTwice(url) ==
    LET c == ActivateBlockId_clean_url(url)
    IN  IF c.raised THEN c ELSE ActivateBlockId_clean_url(c.url)

\* DuplicatesPipeline's key of a url
KeyOf(url) == Duplicates_key([url |-> url])

\* C14: canonicalizing twice gives what canonicalizing once gives, for
\* DuplicatesPipeline's key (query removed, sequence start page replaced by
\* its parent) and for ActivateBlockIdPipeline.clean_url (marker removed,
\* integer last segment emptied): for every url given to a stage, and so
\* every url in a urls_seen is its own canonical form.
C14_Idempotent ==
    /\ \A i \in Calls :
          LET u == log[i].item.url
          IN  /\ KeyOf(KeyOf(u)) = KeyOf(u)
              /\ CleanTwice(u) = ActivateBlockId_clean_url(u)
    /\ \A c \in dup_seen : KeyOf(c) = c
    /\ \A c \in act_seen :
          ActivateBlockId_clean_url(c) = [raised |-> FALSE, url |-> c]

\* C14, its case: /courses/X/courseware/Y/Z/1 was recorded by its parent
\* /courses/X/courseware/Y/Z/, and /section/7/42?activate_block_id=abc was
\* given to the same stage.
C14_Witness ==
    /\ Len(log) = 2
    /\ log[1].stage = "Duplicates"
    /\ log[1].item.url = U(8)
    /\ log[2].item.url = U(20)
    /\ dup_seen = {U(10), Http(SecPath \o <<"7", "42">>, <<>>)}

\* Last segments of the model's paths that are base-10 integers
DecimalSegments == {"1", "7", "42"}

\* The canonical form the claim gives a url that carries the marker: the
\* other query parameters in their order, and the path with an integer last
\* segment replaced by the empty segment.
MarkerForm(url) ==
    LET n == Len(url.path)
        q == SelectSeq(url.query, LAMBDA kv : kv[1] # "activate_block_id")
    IN  Url(url.valid, url.netloc,
            IF url.path[n] \in DecimalSegments
            THEN [url.path EXCEPT ![n] = ""]
            ELSE url.path,
            q)

\* The calls of ActivateBlockIdPipeline with a url that carries the marker
\* and whose path holds a '/'
MarkerCalls ==
    { i \in Calls : /\ log[i].stage = "ActivateBlockId"
                    /\ marker \in query_keys(log[i].item.url)
                    /\ Len(log[i].item.url.path) >= 2 }

\* C15: for a url carrying activate_block_id the stage's canonical form is
\* the url without that parameter, other parameters kept, with an integer
\* last path segment emptied and any other last segment left alone; the
\* stage returns a record exactly when no earlier record had that form, so
\* of records differing only in marker value and integer last segment only
\* the first is returned.
C15_NumericTailRule ==
    /\ \A i \in MarkerCalls :
          /\ log[i].outcome \in {"Returned", "DropItem"}
          /\ log[i].outcome = "DropItem" <=>
                \E j \in MarkerCalls :
                    j < i /\ MarkerForm(log[j].item.url) = MarkerForm(log[i].item.url)
    /\ log # <<>> /\ log[1].stage = "ActivateBlockId" =>
          act_seen = { MarkerForm(log[i].item.url) : i \in MarkerCalls }

\* C15, its case: /section/42?activate_block_id=abc&foo=bar is recorded as
\* /section/?foo=bar, /section/?foo=bar&activate_block_id=xyz is dropped,
\* and /section/intro?activate_block_id=abc is recorded as /section/intro.
C15_Witness ==
    /\ Len(log) = 3
    /\ log[1].stage = "ActivateBlockId"
    /\ log[1].item.url = U(15) /\ log[1].outcome = "Returned"
    /\ log[2].item.url = U(19) /\ log[2].outcome = "DropItem"
    /\ log[3].item.url = U(16) /\ log[3].outcome = "Returned"
    /\ act_seen = {U(13), Http(SecPath \o <<"intro">>, <<>>)}

\* The shape of the claim: exactly 6 segments, segment 0 'courses',
\* segment 2 'courseware', segment 5 '1' (the path string starts with '/')
SequenceStartShape(path) ==
    /\ Len(path) = 7
    /\ path[1] = ""
    /\ path[2] = "courses"
    /\ path[4] = "courseware"
    /\ path[7] = "1"

\* The calls of DuplicatesPipeline
DuplicatesCalls == { i \in Calls : log[i].stage = "Duplicates" }

\* C16: DuplicatesPipeline's key of a url is its parent (the path up to and
\* including the last '/', no query) when the path has exactly 6 segments
\* with 'courses', 'courseware' and '1' at positions 0, 2 and 5, and for any
\* other path it is the url with the query string removed and the path as
\* it was.
C16_CollapseApplicability ==
    /\ \A i \in DuplicatesCalls :
          LET u == log[i].item.url
              n == Len(u.path)
          IN  KeyOf(u) =
                 IF SequenceStartShape(u.path)
                 THEN Url(u.valid, u.netloc, [u.path EXCEPT ![n] = ""], <<>>)
                 ELSE Url(u.valid, u.netloc, u.path, <<>>)
    /\ \A i \in DuplicatesCalls :
          log[i].outcome = "Returned" => KeyOf(log[i].item.url) \in dup_seen

\* C16, its case: /courses/X/courseware/Y/Z/1/ (7 segments),
\* /courses/X/other/Y/Z/1 (another marker) and /courses/X/courseware/Y/Z/1
\* were processed; the first two are recorded as they are, the third by its
\* parent.
C16_Witness ==
    /\ Len(log) = 3
    /\ log[1].stage = "Duplicates"
    /\ log[1].item.url = U(21)
    /\ log[2].item.url = U(22)
    /\ log[3].item.url = U(8)
    /\ dup_seen = {U(21), U(22), U(10)}

\* Two urls that differ only in their query string
QueryOnlyPair(a, b) ==
    a.netloc = b.netloc /\ a.path = b.path /\ a.query # b.query

\* Two urls that differ only by a trailing slash on the path
SlashPair(a, b) ==
    /\ a.netloc = b.netloc
    /\ a.query = b.query
    /\ (a.path \o <<"">> = b.path \/ b.path \o <<"">> = a.path)

\* C17: DuplicatesPipeline drops a record whose url differs only in the
\* query string from an earlier record's, and of two such records given to
\* a new stage the first is returned; two urls that differ only by a
\* trailing slash have different keys, and given to a new stage both are
\* returned.
C17_QueryAndTrailingSlash ==
    /\ \A i, j \in DuplicatesCalls :
          LET a == log[i].item.url
              b == log[j].item.url
          IN  /\ (i < j /\ QueryOnlyPair(a, b)) => log[j].outcome = "DropItem"
              /\ SlashPair(a, b) => KeyOf(a) # KeyOf(b)
    /\ (Len(log) >= 2 /\ log[1].stage = "Duplicates") =>
          LET a == log[1].item.url
              b == log[2].item.url
          IN  /\ QueryOnlyPair(a, b) =>
                    log[1].outcome = "Returned" /\ log[2].outcome = "DropItem"
              /\ SlashPair(a, b) =>
                    log[1].outcome = "Returned" /\ log[2].outcome = "Returned"

\* C17, its case: /page/ and /page?next=/home are both returned, and /page
\* is then dropped.
C17_Witness ==
    /\ Len(log) = 3
    /\ log[1].stage = "Duplicates"
    /\ log[1].item.url = U(3) /\ log[1].outcome = "Returned"
    /\ log[2].item.url = U(2) /\ log[2].outcome = "Returned"
    /\ log[3].item.url = U(1) /\ log[3].outcome = "DropItem"

\* The set `stage` keeps its canonical forms in
SeenOf(stage) ==
    IF stage = "Duplicates" THEN dup_seen ELSE act_seen

\* C18: DuplicatesPipeline and ActivateBlockIdPipeline each own their
\* urls_seen: a process_item call of one stage leaves the other stage's set
\* unchanged, a DropDRFPipeline call leaves both unchanged, and a stage
\* raises DropItem only for a record whose canonical form was in its own
\* set before the call, whatever the other stage's set holds.
C18_SeenSetIndependence ==
    [][ /\ at = "Duplicates" => act_seen' = act_seen
        /\ at = "ActivateBlockId" => dup_seen' = dup_seen
        /\ at = "DropDRF" => (dup_seen' = dup_seen /\ act_seen' = act_seen)
        /\ (Len(log') > Len(log) /\ NewCall.stage \in DedupStages) =>
              LET c == CanonOf(NewCall.stage, NewCall.item.url)
              IN  NewCall.outcome = "DropItem" <=>
                     (c # {} /\ c \subseteq SeenOf(NewCall.stage))
      ]_vars

\* C18, its case: /section/intro?activate_block_id=abc is the first record;
\* its form /section/intro is already in DuplicatesPipeline's set when
\* ActivateBlockIdPipeline, whose form for it is the same, returns it.
C18_Witness ==
    /\ Len(log) = 3
    /\ log[2].stage = "Duplicates" /\ log[2].outcome = "Returned"
    /\ log[3].stage = "ActivateBlockId" /\ log[3].outcome = "Returned"
    /\ log[3].item.url = U(16)
    /\ CanonOf("ActivateBlockId", U(16)) = CanonOf("Duplicates", U(16))
    /\ CanonOf("ActivateBlockId", U(16)) \subseteq dup_seen
    /\ act_seen = CanonOf("ActivateBlockId", U(16))

\* The calls of `stage` in the log, and those of them that returned the record
StageCalls(stage) == {i \in Calls : log[i].stage = stage}

StageReturned(stage) == {i \in StageCalls(stage) : log[i].outcome = "Returned"}

\* C19: under sequential delivery, after any sequence of process_item
\* calls the urls_seen of DuplicatesPipeline and of ActivateBlockIdPipeline
\* is exactly the set of canonical forms of the records the stage returned;
\* a stage raises DropItem only for a record whose canonical form is that of
\* a record it returned earlier, and it returns no two records with the same
\* canonical form.
C19_NoFalseSuppression ==
    \A s \in DedupStages :
        /\ SeenOf(s) =
              UNION {CanonOf(s, log[i].item.url) : i \in StageReturned(s)}
        /\ \A j \in StageCalls(s) :
              log[j].outcome = "DropItem" =>
                  \E i \in StageReturned(s) :
                      /\ i < j
                      /\ CanonOf(s, log[i].item.url) # {}
                      /\ CanonOf(s, log[i].item.url) = CanonOf(s, log[j].item.url)
        /\ \A i, j \in StageReturned(s) :
              i < j => CanonOf(s, log[i].item.url)
                          \cap CanonOf(s, log[j].item.url) = {}

\* C19, its case: ActivateBlockIdPipeline returned /section/42 with the
\* marker and /section/7?foo=bar without it, then dropped /section/7 with
\* the marker; its set holds the one form /section/.
C19_Witness ==
    /\ Len(log) = 3
    /\ log[1].stage = "ActivateBlockId"
    /\ log[1].item.url = U(11) /\ log[1].outcome = "Returned"
    /\ log[2].item.url = U(14) /\ log[2].outcome = "Returned"
    /\ log[3].item.url = U(12) /\ log[3].outcome = "DropItem"
    /\ act_seen = CanonOf("ActivateBlockId", U(11))

\* C20: in the composed pipeline under sequential delivery, every record
\* that DuplicatesPipeline drops as a duplicate has the same
\* DuplicatesPipeline key as an earlier record that was forwarded to the
\* downstream consumer. Stated for the call just made, in runs where no
\* call raised ValueError.
C20_NoLostPage ==
    (log # <<>> /\ \A i \in Calls : log[i].outcome # "ValueError") =>
        LET c == log[Len(log)]
        IN  (c.stage = "Duplicates" /\ c.outcome = "DropItem") =>
                \E k \in 1..Len(forwarded) :
                    Duplicates_key(forwarded[k]) = Duplicates_key(c.item)

====
